---- MODULE Spec2Model ----
(***************************************************************************)
(* Model of todo-cli (src/src/main.rs): the task store kept in memory, its *)
(* JSON file, the store operations and the command dispatcher of main.     *)
(***************************************************************************)
EXTENDS Naturals, Integers, Sequences, FiniteSets, TLC

VARIABLES
    store,      \* the TodoStore held in memory
    file,       \* the store file at store_path()
    last,       \* the last operation: its name, argument, result and output
    prev,       \* the store and the file that the last command found
    returned,   \* the ids returned by add, oldest first
    procs       \* the invocations of the program that run step by step

vars == <<store, file, last, prev, returned, procs>>

\* ---------------------------------------------------------------- bounds
MaxTodos == 3
MaxNextId == 3
MaxAdds == 6
MaxRoundTrip == 2

\* ---------------------------------------------------------------- inputs
Ids == 0 .. MaxNextId - 1

\* ---------------------------------------------------------------- types
\* enum Priority
Priority == {"High", "Medium", "Low"}

\* enum ListFilter
ListFilter == {"All", "Done", "Pending"}

\* Option<String>
None == <<>>
Some(s) == <<s>>

\* #[serde(rename_all = "lowercase")] on Priority, serializing
priority_to_json(p) ==
    CASE p = "High" -> "high"
      [] p = "Medium" -> "medium"
      [] p = "Low" -> "low"

\* #[serde(rename_all = "lowercase")] on Priority, deserializing
priority_from_json(s) ==
    CASE s = "high" -> [ok |-> TRUE, val |-> "High"]
      [] s = "medium" -> [ok |-> TRUE, val |-> "Medium"]
      [] s = "low" -> [ok |-> TRUE, val |-> "Low"]
      [] OTHER -> [ok |-> FALSE, val |-> "High"]

\* impl Display for Priority
priority_fmt(p) ==
    CASE p = "High" -> "high"
      [] p = "Medium" -> "medium"
      [] p = "Low" -> "low"

\* JSON values of the due_date field
JNull == [t |-> "null", v |-> ""]
JStr(s) == [t |-> "string", v |-> s]

\* None written as an empty string
option_to_json_empty(o) == IF o = None THEN JStr("") ELSE JStr(o[1])

\* Option<String> as serde writes it
option_to_json(o) == IF o = None THEN JNull ELSE JStr(o[1])

\* Option<String> as serde reads it
option_from_json(j) == IF j.t = "null" THEN None ELSE Some(j.v)

\* #[derive(Default)] TodoStore
TodoStore_default == [next_id |-> 0, todos |-> <<>>]

\* tests::empty_store, and load_store's store for a missing file
empty_store == [next_id |-> 1, todos |-> <<>>]

\* #[derive(Serialize)] Todo
todo_to_json(t) ==
    [id |-> t.id, title |-> t.title, completed |-> t.completed,
     priority |-> priority_to_json(t.priority),
     due_date |-> option_to_json(t.due_date),
     created_at |-> t.created_at]

\* Todo read with completed skipped, so left at its default
todo_from_json_skips_completed(j) ==
    [id |-> j.id, title |-> j.title, completed |-> FALSE,
     priority |-> priority_from_json(j.priority).val,
     due_date |-> option_from_json(j.due_date),
     created_at |-> j.created_at]

\* #[derive(Deserialize)] Todo
todo_from_json(j) ==
    [id |-> j.id, title |-> j.title, completed |-> j.completed,
     priority |-> priority_from_json(j.priority).val,
     due_date |-> option_from_json(j.due_date),
     created_at |-> j.created_at]

\* the length in bytes of the strings that occur
StrLen(s) ==
    CASE s = "" -> 0
      [] s = "{}" -> 2
      [] s = "Buy milk" -> 8
      [] s = "low" -> 3
      [] s = "high" -> 4
      [] s = "medium" -> 6
      [] s \in {"2026-03-01", "2026-11-02", "2026-11-03"} -> 10

\* the number of decimal digits of a u32
Digits(n) ==
    IF n < 0 THEN 10
    ELSE IF n < 10 THEN 1
    ELSE IF n < 100 THEN 2
    ELSE IF n < 1000 THEN 3
    ELSE IF n < 10000 THEN 4
    ELSE IF n < 100000 THEN 5
    ELSE IF n < 1000000 THEN 6
    ELSE IF n < 10000000 THEN 7
    ELSE IF n < 100000000 THEN 8
    ELSE IF n < 1000000000 THEN 9
    ELSE 10

\* the length in bytes of one task as to_string_pretty writes it: the braces
\* and the six indented "name": value lines
todo_json_size(j) ==
    6 + (14 + Digits(j.id))
      + (19 + StrLen(j.title))
      + (21 + (IF j.completed THEN 4 ELSE 5))
      + (22 + StrLen(j.priority))
      + (20 + (IF j.due_date.t = "null" THEN 4 ELSE 2 + StrLen(j.due_date.v)))
      + (23 + StrLen(j.created_at))
      + 5

RECURSIVE todos_json_size(_)
todos_json_size(js) ==
    IF js = <<>> THEN 0
    ELSE todo_json_size(Head(js)) + (IF Len(js) > 1 THEN 2 ELSE 1)
         + todos_json_size(Tail(js))

\* the length in bytes of the whole document
json_size(next_id, js) ==
    2 + (15 + Digits(next_id))
      + (IF js = <<>> THEN 14 ELSE 13 + todos_json_size(js) + 4)
      + 1

\* serde_json::to_string_pretty(store)
to_string_pretty(s) ==
    [kind |-> "object", text |-> "",
     size |-> json_size(s.next_id, [i \in 1 .. Len(s.todos) |-> todo_to_json(s.todos[i])]),
     next_id |-> s.next_id,
     todos |-> [i \in 1 .. Len(s.todos) |-> todo_to_json(s.todos[i])]]

\* serde_json::from_str::<TodoStore>(data)
from_str(data) ==
    IF /\ data.kind = "object"
       /\ \A i \in 1 .. Len(data.todos) : priority_from_json(data.todos[i].priority).ok
    THEN [ok |-> TRUE,
          val |-> [next_id |-> data.next_id,
                   todos |-> [i \in 1 .. Len(data.todos) |-> todo_from_json(data.todos[i])]]]
    ELSE [ok |-> FALSE, val |-> TodoStore_default]

\* file contents that are not a serialized TodoStore
Text(s) == [kind |-> "text", text |-> s, size |-> StrLen(s), next_id |-> 0, todos |-> <<>>]

\* what is left when a shorter content is written over the start of a
\* longer one: the shorter one followed by the tail of the longer one
Garbled(n) == [kind |-> "text", text |-> "garbled", size |-> n, next_id |-> 0, todos |-> <<>>]

\* write_all at offset 0 of a file that holds cur
overlay(cur, data) == IF cur.size <= data.size THEN data ELSE Garbled(cur.size)
UnparsableData == {Text("{}")}

\* the file system at store_path()
Absent == [exists |-> FALSE, data |-> Text("")]
FileOf(d) == [exists |-> TRUE, data |-> d]

\* the arguments of add that are tried: the default priority and another,
\* a due date given and not given, an empty title; today is what
\* Local::now() returns
AddInputs ==
    {[title |-> "", priority |-> "Medium", due |-> None, today |-> "2026-11-02"],
     [title |-> "Buy milk", priority |-> "High", due |-> Some("2026-03-01"),
      today |-> "2026-11-03"]}

\* ---------------------------------------------------------------- store operations
\* load_store giving the derived Default for a missing file too
load_store_missing_default(f) ==
    IF f.exists
    THEN LET r == from_str(f.data) IN IF r.ok THEN r.val ELSE TodoStore_default
    ELSE TodoStore_default

load_store(f) ==
    IF f.exists
    THEN LET r == from_str(f.data) IN IF r.ok THEN r.val ELSE TodoStore_default
    ELSE [next_id |-> 1, todos |-> TodoStore_default.todos]

save_store(s) == FileOf(to_string_pretty(s))

\* next_id: u32.  A u32 is kept as its 32-bit pattern read in two's
\* complement: 0 .. 2^31 - 1 are themselves, 2^31 .. 2^32 - 1 are the
\* negative numbers -2^31 .. -1, so that u32::MAX is the pattern of -1.
I32_MAX == 2147483647
I32_MIN == (-I32_MAX) - 1
U32_MAX == 0 - 1

\* a < b on u32
u32_lt(a, b) == IF (a >= 0) = (b >= 0) THEN a < b ELSE a >= 0

\* n + 1 on u32 without the overflow check: u32::MAX + 1 is 0
wrapping_add_1(n) == IF n = I32_MAX THEN I32_MIN ELSE n + 1

\* store.next_id += 1 overflows
add_overflows(s) == s.next_id = U32_MAX

\* add_todo putting the task at the front
add_todo_prepends(s, title, priority, due, today) ==
    LET id == s.next_id
        todo == [id |-> id, title |-> title, completed |-> FALSE,
                 priority |-> priority, due_date |-> due, created_at |-> today]
    IN [store |-> [next_id |-> s.next_id + 1, todos |-> <<todo>> \o s.todos],
        ret |-> id]

\* add_todo returning the counter after the increment
add_todo_returns_next(s, title, priority, due, today) ==
    LET id == s.next_id + 1
        todo == [id |-> id, title |-> title, completed |-> FALSE,
                 priority |-> priority, due_date |-> due, created_at |-> today]
    IN [store |-> [next_id |-> s.next_id + 1, todos |-> Append(s.todos, todo)],
        ret |-> id]

\* add_todo without store.next_id += 1
add_todo_no_increment(s, title, priority, due, today) ==
    LET id == s.next_id
        todo == [id |-> id, title |-> title, completed |-> FALSE,
                 priority |-> priority, due_date |-> due, created_at |-> today]
    IN [store |-> [next_id |-> s.next_id, todos |-> Append(s.todos, todo)],
        ret |-> id]

\* add_todo taking the id from the number of tasks
add_todo_id_from_len(s, title, priority, due, today) ==
    LET id == Len(s.todos) + 1
        todo == [id |-> id, title |-> title, completed |-> FALSE,
                 priority |-> priority, due_date |-> due, created_at |-> today]
    IN [store |-> [next_id |-> id + 1, todos |-> Append(s.todos, todo)],
        ret |-> id]

\* add_todo where store.next_id += 1 does not panic (no overflow, or a build
\* without overflow checks)
add_todo(s, title, priority, due, today) ==
    LET id == s.next_id
        todo == [id |-> id, title |-> title, completed |-> FALSE,
                 priority |-> priority, due_date |-> due, created_at |-> today]
    IN [store |-> [next_id |-> wrapping_add_1(s.next_id), todos |-> Append(s.todos, todo)],
        ret |-> id]

\* store.todos.iter_mut().find(|t| t.id == id): index of the first match, 0 for none
find(todos, id) ==
    IF \E i \in 1 .. Len(todos) : todos[i].id = id
    THEN CHOOSE i \in 1 .. Len(todos) :
            /\ todos[i].id = id
            /\ \A j \in 1 .. i - 1 : todos[j].id # id
    ELSE 0

\* mark_done flipping the flag instead of setting it
mark_done_toggles(s, id) ==
    LET i == find(s.todos, id)
    IN IF i # 0
       THEN [store |-> [s EXCEPT !.todos[i].completed = ~s.todos[i].completed],
             ret |-> TRUE]
       ELSE [store |-> s, ret |-> FALSE]

mark_done(s, id) ==
    LET i == find(s.todos, id)
    IN IF i # 0
       THEN [store |-> [s EXCEPT !.todos[i].completed = TRUE], ret |-> TRUE]
       ELSE [store |-> s, ret |-> FALSE]

\* Vec::retain(|t| t.id != id)
RECURSIVE retain(_, _)
retain(todos, id) ==
    IF todos = <<>> THEN <<>>
    ELSE IF Head(todos).id # id
         THEN <<Head(todos)>> \o retain(Tail(todos), id)
         ELSE retain(Tail(todos), id)

\* remove_todo comparing the lengths with <=
remove_todo_le(s, id) ==
    LET len_before == Len(s.todos)
        kept == retain(s.todos, id)
    IN [store |-> [s EXCEPT !.todos = kept], ret |-> Len(kept) <= len_before]

\* remove_todo with Vec::swap_remove instead of retain
remove_todo_swap(s, id) ==
    LET i == find(s.todos, id)
        n == Len(s.todos)
    IN IF i = 0
       THEN [store |-> s, ret |-> FALSE]
       ELSE [store |-> [s EXCEPT !.todos =
                            [k \in 1 .. n - 1 |-> IF k = i THEN s.todos[n] ELSE s.todos[k]]],
             ret |-> TRUE]

remove_todo(s, id) ==
    LET len_before == Len(s.todos)
        kept == retain(s.todos, id)
    IN [store |-> [s EXCEPT !.todos = kept], ret |-> Len(kept) < len_before]

\* the closure with Pending letting every task through
filter_match_pending_all(t, filter) ==
    CASE filter = "All" -> TRUE
      [] filter = "Done" -> t.completed
      [] filter = "Pending" -> TRUE

\* the closure of filter_todos
filter_match(t, filter) ==
    CASE filter = "All" -> TRUE
      [] filter = "Done" -> t.completed
      [] filter = "Pending" -> ~t.completed

RECURSIVE filter_todos_seq(_, _)
filter_todos_seq(todos, filter) ==
    IF todos = <<>> THEN <<>>
    ELSE IF filter_match(Head(todos), filter)
         THEN <<Head(todos)>> \o filter_todos_seq(Tail(todos), filter)
         ELSE filter_todos_seq(Tail(todos), filter)

filter_todos(s, filter) == filter_todos_seq(s.todos, filter)

\* ---------------------------------------------------------------- bookkeeping
\* what an operation leaves behind for the observer: its name, its id
\* argument, the id or the flag it returned, and what a command printed
\* and, where the operation has them, the arguments of add, the filter and
\* the tasks filter_todos returned
NoInput == [title |-> "", priority |-> "Medium", due |-> None, today |-> ""]

Outcome(op, arg, ret, ok, stdout, stderr, exit) ==
    [op |-> op, arg |-> arg, ret |-> ret, ok |-> ok,
     stdout |-> stdout, stderr |-> stderr, exit |-> exit, again |-> FALSE,
     given |-> NoInput, filter |-> "", found |-> <<>>]

\* the operation before this one was the same, with the same id, and succeeded
Again(op, arg) == last.op = op /\ last.arg = arg /\ last.ok

Before == [store |-> store, file |-> file]

\* the invocations that can run at the same time
Procs == {1, 2}

\* an invocation: where it is in main, its command line, the store it
\* loaded and the store after the operation, what it printed, its exit
\* status and the I/O call that failed, if one did; and for the observer:
\* early, it loaded before any other invocation began to save; saving, it
\* began to save; overlapped, its save and another ran at the same time;
\* last_write, no write came after its write
IdleProc ==
    [pc |-> "idle", cmd |-> "", arg |-> 0, given |-> NoInput, filter |-> "",
     loaded |-> TodoStore_default, store |-> TodoStore_default, ret |-> 0,
     stdout |-> <<>>, stderr |-> <<>>, exit |-> 0, failed |-> "",
     early |-> FALSE, saving |-> FALSE, overlapped |-> FALSE, last_write |-> FALSE]

\* ---------------------------------------------------------------- initial state
\* the first load of a run: the file is missing or holds something else
Init ==
    /\ file \in {Absent} \cup {FileOf(d) : d \in UnparsableData}
    /\ store = load_store(file)
    /\ last = Outcome("init", 0, 0, TRUE, <<>>, <<>>, 0)
    /\ prev = [store |-> store, file |-> file]
    /\ returned = <<>>
    /\ procs = [p \in Procs |-> IdleProc]

\* ---------------------------------------------------------------- calls of the store operations
Load ==
    /\ store' = load_store(file)
    /\ last' = Outcome("load", 0, 0, TRUE, <<>>, <<>>, 0)
    /\ UNCHANGED <<file, prev, returned, procs>>

Save ==
    /\ file' = save_store(store)
    /\ last' = Outcome("save", 0, 0, TRUE, <<>>, <<>>, 0)
    /\ UNCHANGED <<store, prev, returned, procs>>

\* exit status of a process that panicked
PanicExit == 101

\* overflow_checks: the build profile decides whether store.next_id += 1
\* panics on overflow (before the task is pushed) or wraps
AddStep(title, priority, due, today) ==
    /\ \E overflow_checks \in BOOLEAN :
         IF overflow_checks /\ add_overflows(store)
         THEN /\ store' = store
              /\ last' = [Outcome("add", 0, 0, FALSE, <<>>,
                                  <<"attempt to add with overflow">>, PanicExit)
                            EXCEPT !.given = [title |-> title, priority |-> priority,
                                              due |-> due, today |-> today]]
         ELSE LET r == add_todo(store, title, priority, due, today)
              IN /\ store' = r.store
                 /\ last' = [Outcome("add", 0, r.ret, TRUE, <<>>, <<>>, 0)
                               EXCEPT !.given = [title |-> title, priority |-> priority,
                                                 due |-> due, today |-> today]]
    /\ UNCHANGED <<file, prev, procs>>

Add ==
    /\ store.next_id < MaxNextId
    /\ Len(store.todos) < MaxTodos
    /\ \E a \in AddInputs : AddStep(a.title, a.priority, a.due, a.today)
    /\ UNCHANGED returned

\* add called on a store that only add has touched, the ids it returned kept
AddSeq ==
    /\ Len(returned) < MaxAdds
    /\ \E a \in AddInputs : AddStep(a.title, a.priority, a.due, a.today)
    /\ returned' = Append(returned, last'.ret)

Complete ==
    \E id \in Ids :
        /\ LET r == mark_done(store, id)
           IN /\ store' = r.store
              /\ last' = [Outcome("mark_done", id, 0, r.ret, <<>>, <<>>, 0)
                            EXCEPT !.again = Again("mark_done", id)]
        /\ UNCHANGED <<file, prev, returned, procs>>

Remove ==
    \E id \in Ids :
        /\ LET r == remove_todo(store, id)
           IN /\ store' = r.store
              /\ last' = Outcome("remove", id, 0, r.ret, <<>>, <<>>, 0)
        /\ UNCHANGED <<file, prev, returned, procs>>

Filter ==
    \E filter \in ListFilter :
        /\ last' = [Outcome("filter", 0, 0, TRUE, <<>>, <<>>, 0)
                      EXCEPT !.filter = filter, !.found = filter_todos(store, filter)]
        /\ UNCHANGED <<store, file, prev, returned, procs>>

\* ---------------------------------------------------------------- commands of main
\* one row of the table List prints
list_row(t) ==
    <<t.id,
      IF t.completed THEN "[x]" ELSE "[ ]",
      priority_fmt(t.priority),
      IF t.due_date = None THEN "-" ELSE t.due_date[1],
      t.title>>

list_output(todos) ==
    IF todos = <<>>
    THEN <<<<"No todos found.">>>>
    ELSE <<<<"ID", "Done", "Priority", "Due", "Title">>, <<"-">>>>
         \o [i \in 1 .. Len(todos) |-> list_row(todos[i])]

CmdAdd ==
    \E a \in AddInputs :
        LET loaded == load_store(file)
            r == add_todo(loaded, a.title, a.priority, a.due, a.today)
        IN /\ loaded.next_id < MaxNextId
           /\ Len(loaded.todos) < MaxTodos
           /\ store' = r.store
           /\ file' = save_store(r.store)
           /\ last' = Outcome("cmd_add", 0, r.ret, TRUE,
                              <<<<"Added todo #", r.ret, ": ", a.title>>>>, <<>>, 0)
           /\ prev' = Before
           /\ returned' = Append(returned, r.ret)
           /\ UNCHANGED procs

\* List writing back the store it loaded
CmdList_saves ==
    \E filter \in ListFilter :
        LET loaded == load_store(file)
            todos == filter_todos(loaded, filter)
        IN /\ store' = loaded
           /\ file' = save_store(loaded)
           /\ last' = [Outcome("cmd_list", 0, 0, TRUE, list_output(todos), <<>>, 0)
                         EXCEPT !.filter = filter]
           /\ prev' = Before
           /\ UNCHANGED <<returned, procs>>

CmdList ==
    \E filter \in ListFilter :
        LET loaded == load_store(file)
            todos == filter_todos(loaded, filter)
        IN /\ store' = loaded
           /\ last' = [Outcome("cmd_list", 0, 0, TRUE, list_output(todos), <<>>, 0)
                         EXCEPT !.filter = filter]
           /\ prev' = Before
           /\ UNCHANGED <<file, returned, procs>>

CmdDone ==
    \E id \in Ids :
        LET loaded == load_store(file)
            r == mark_done(loaded, id)
        IN /\ store' = r.store
           /\ IF r.ret
              THEN /\ file' = save_store(r.store)
                   /\ last' = Outcome("cmd_done", id, 0, TRUE,
                                      <<<<"Marked todo #", id, " as done.">>>>, <<>>, 0)
              ELSE /\ file' = file
                   /\ last' = Outcome("cmd_done", id, 0, FALSE,
                                      <<>>, <<<<"Todo #", id, " not found.">>>>, 1)
           /\ prev' = Before
           /\ UNCHANGED <<returned, procs>>

\* Remove saving the store whether or not a task was removed
CmdRemove_always_saves ==
    \E id \in Ids :
        LET loaded == load_store(file)
            r == remove_todo(loaded, id)
        IN /\ store' = r.store
           /\ file' = save_store(r.store)
           /\ IF r.ret
              THEN last' = Outcome("cmd_remove", id, 0, TRUE,
                                   <<<<"Removed todo #", id, ".">>>>, <<>>, 0)
              ELSE last' = Outcome("cmd_remove", id, 0, FALSE,
                                   <<>>, <<<<"Todo #", id, " not found.">>>>, 1)
           /\ prev' = Before
           /\ UNCHANGED <<returned, procs>>

CmdRemove ==
    \E id \in Ids :
        LET loaded == load_store(file)
            r == remove_todo(loaded, id)
        IN /\ store' = r.store
           /\ IF r.ret
              THEN /\ file' = save_store(r.store)
                   /\ last' = Outcome("cmd_remove", id, 0, TRUE,
                                      <<<<"Removed todo #", id, ".">>>>, <<>>, 0)
              ELSE /\ file' = file
                   /\ last' = Outcome("cmd_remove", id, 0, FALSE,
                                      <<>>, <<<<"Todo #", id, " not found.">>>>, 1)
           /\ prev' = Before
           /\ UNCHANGED <<returned, procs>>


\* ---------------------------------------------------------------- main, step by step
\* An invocation reads the file in one step, which with the operation on its
\* own store is PAdd, PList, PDone or PRemove; fs::write is File::create, which
\* empties the file (PCreate), then write_all (PWrite); then it prints (PPrint).
\* A failed expect panics: the message goes to the error stream and the exit
\* status is 101.
\* no other invocation has begun to save
Early(p) == \A q \in Procs \ {p} : ~procs[q].saving

\* the invocation p as it starts with the store it loaded
Started(p, cmd) ==
    [IdleProc EXCEPT !.pc = "ready", !.cmd = cmd,
                     !.loaded = load_store(file), !.early = Early(p)]

UNCHANGED_lib == UNCHANGED <<store, last, prev, returned>>

\* fs::read_to_string fails on a file that exists
PReadFails(p) ==
    /\ procs[p].pc = "idle"
    /\ file.exists
    /\ \E cmd \in {"add", "list", "done", "remove"} :
          procs' = [procs EXCEPT ![p] =
                      [IdleProc EXCEPT !.pc = "done", !.cmd = cmd, !.failed = "read",
                                       !.stderr = <<<<"Failed to read store file">>>>,
                                       !.exit = PanicExit]]
    /\ UNCHANGED file
    /\ UNCHANGED_lib

PAdd(p) ==
    /\ procs[p].pc = "idle"
    /\ \E a \in AddInputs :
          LET me == Started(p, "add")
              r == add_todo(me.loaded, a.title, a.priority, a.due, a.today)
          IN /\ me.loaded.next_id < MaxNextId
             /\ Len(me.loaded.todos) < MaxTodos
             /\ procs' = [procs EXCEPT ![p] =
                            [me EXCEPT !.given = a, !.store = r.store, !.ret = r.ret]]
    /\ UNCHANGED file
    /\ UNCHANGED_lib

PList(p) ==
    /\ procs[p].pc = "idle"
    /\ \E filter \in ListFilter :
          LET me == Started(p, "list")
              todos == filter_todos(me.loaded, filter)
          IN procs' = [procs EXCEPT ![p] =
                         [me EXCEPT !.pc = "done", !.filter = filter, !.store = me.loaded,
                                    !.stdout = list_output(todos)]]
    /\ UNCHANGED file
    /\ UNCHANGED_lib

PDone(p) ==
    /\ procs[p].pc = "idle"
    /\ \E id \in Ids :
          LET me == Started(p, "done")
              r == mark_done(me.loaded, id)
          IN procs' = [procs EXCEPT ![p] =
                         IF r.ret
                         THEN [me EXCEPT !.arg = id, !.store = r.store]
                         ELSE [me EXCEPT !.arg = id, !.store = r.store, !.pc = "done",
                                         !.stderr = <<<<"Todo #", id, " not found.">>>>,
                                         !.exit = 1]]
    /\ UNCHANGED file
    /\ UNCHANGED_lib

PRemove(p) ==
    /\ procs[p].pc = "idle"
    /\ \E id \in Ids :
          LET me == Started(p, "remove")
              r == remove_todo(me.loaded, id)
          IN procs' = [procs EXCEPT ![p] =
                         IF r.ret
                         THEN [me EXCEPT !.arg = id, !.store = r.store]
                         ELSE [me EXCEPT !.arg = id, !.store = r.store, !.pc = "done",
                                         !.stderr = <<<<"Todo #", id, " not found.">>>>,
                                         !.exit = 1]]
    /\ UNCHANGED file
    /\ UNCHANGED_lib

\* File::create leaving the content in place
PCreate_no_truncate(p) ==
    /\ procs[p].pc = "ready"
    /\ \/ /\ file' = IF file.exists THEN file ELSE FileOf(Text(""))
          /\ procs' = [q \in Procs |->
                         IF q = p
                         THEN [procs[q] EXCEPT !.pc = "created", !.saving = TRUE,
                                  !.overlapped = \E o \in Procs \ {p} : procs[o].pc = "created"]
                         ELSE IF procs[q].pc = "created"
                              THEN [procs[q] EXCEPT !.overlapped = TRUE]
                              ELSE procs[q]]
       \/ /\ file' = file
          /\ procs' = [procs EXCEPT ![p].pc = "done", ![p].failed = "create",
                                     ![p].stderr = <<<<"Failed to write store file">>>>,
                                     ![p].exit = PanicExit]
    /\ UNCHANGED_lib

\* fs::write, first half: File::create empties the file, or fails
PCreate(p) ==
    /\ procs[p].pc = "ready"
    /\ \/ /\ file' = FileOf(Text(""))
          /\ procs' = [q \in Procs |->
                         IF q = p
                         THEN [procs[q] EXCEPT !.pc = "created", !.saving = TRUE,
                                  !.overlapped = \E o \in Procs \ {p} : procs[o].pc = "created"]
                         ELSE IF procs[q].pc = "created"
                              THEN [procs[q] EXCEPT !.overlapped = TRUE]
                              ELSE procs[q]]
       \/ /\ file' = file
          /\ procs' = [procs EXCEPT ![p].pc = "done", ![p].failed = "create",
                                     ![p].stderr = <<<<"Failed to write store file">>>>,
                                     ![p].exit = PanicExit]
    /\ UNCHANGED_lib

\* write_all whose error is dropped instead of unwrapped
PWrite_ignores_error(p) ==
    /\ procs[p].pc = "created"
    /\ \/ /\ file' = FileOf(overlay(file.data, to_string_pretty(procs[p].store)))
          /\ procs' = [q \in Procs |->
                         IF q = p
                         THEN [procs[q] EXCEPT !.pc = "saved", !.last_write = TRUE]
                         ELSE [procs[q] EXCEPT !.last_write = FALSE]]
       \/ /\ file' = file
          /\ procs' = [procs EXCEPT ![p].pc = "saved", ![p].failed = "write"]
    /\ UNCHANGED_lib

\* fs::write, second half: write_all puts the data at the start of the
\* file, or fails and leaves the file as it is
PWrite(p) ==
    /\ procs[p].pc = "created"
    /\ \/ /\ file' = FileOf(overlay(file.data, to_string_pretty(procs[p].store)))
          /\ procs' = [q \in Procs |->
                         IF q = p
                         THEN [procs[q] EXCEPT !.pc = "saved", !.last_write = TRUE]
                         ELSE [procs[q] EXCEPT !.last_write = FALSE]]
       \/ /\ file' = file
          /\ procs' = [procs EXCEPT ![p].pc = "done", ![p].failed = "write",
                                     ![p].stderr = <<<<"Failed to write store file">>>>,
                                     ![p].exit = PanicExit]
    /\ UNCHANGED_lib

\* the confirmation of Add, Done and Remove
confirmation(me) ==
    CASE me.cmd = "add" -> <<<<"Added todo #", me.ret, ": ", me.given.title>>>>
      [] me.cmd = "done" -> <<<<"Marked todo #", me.arg, " as done.">>>>
      [] me.cmd = "remove" -> <<<<"Removed todo #", me.arg, ".">>>>

PPrint(p) ==
    /\ procs[p].pc = "saved"
    /\ procs' = [procs EXCEPT ![p].pc = "done",
                               ![p].stdout = confirmation(procs[p])]
    /\ UNCHANGED file
    /\ UNCHANGED_lib

\* the process is gone; what it did stays on record until the next one starts
PExit(p) ==
    /\ procs[p].pc = "done"
    /\ procs' = [procs EXCEPT ![p].pc = "idle"]
    /\ UNCHANGED file
    /\ UNCHANGED_lib

\* ---------------------------------------------------------------- specifications
\* the store operations called in any order, as the tests call them
Next == Load \/ Save \/ Add \/ Complete \/ Remove
Spec == Init /\ [][Next]_vars

\* the operations on the store in memory alone, the file left aside
NextMem == Add \/ Complete \/ Remove \/ Filter
SpecMem == Init /\ [][NextMem]_vars

\* add alone, on a fresh store
InitAdd ==
    /\ file = Absent
    /\ store = empty_store
    /\ last = Outcome("init", 0, 0, TRUE, <<>>, <<>>, 0)
    /\ prev = [store |-> store, file |-> file]
    /\ returned = <<>>
    /\ procs = [p \in Procs |-> IdleProc]

NextAdd == AddSeq
SpecAdd == InitAdd /\ [][NextAdd]_vars

\* save and load alone, on any store: every priority, a due date present and
\* absent, completed and not, ids in increasing order below next_id
TodoFields ==
    [title : {"", "Buy milk"}, completed : BOOLEAN, priority : Priority,
     due_date : {None, Some("2026-03-01")}, created_at : {"2026-11-02"}]

IdSeqs(n) ==
    {q \in [1 .. n -> 0 .. MaxRoundTrip] : \A i \in 1 .. n - 1 : q[i] < q[i + 1]}

MakeTodo(id, f) ==
    [id |-> id, title |-> f.title, completed |-> f.completed,
     priority |-> f.priority, due_date |-> f.due_date, created_at |-> f.created_at]

InitRoundTrip ==
    /\ \E n \in 0 .. MaxRoundTrip :
         \E q \in IdSeqs(n), f \in [1 .. n -> TodoFields],
            next_id \in 0 .. MaxRoundTrip + 1 :
              /\ \A i \in 1 .. n : q[i] < next_id
              /\ store = [next_id |-> next_id,
                          todos |-> [i \in 1 .. n |-> MakeTodo(q[i], f[i])]]
    /\ file = Absent
    /\ last = Outcome("init", 0, 0, TRUE, <<>>, <<>>, 0)
    /\ prev = [store |-> store, file |-> file]
    /\ returned = <<>>
    /\ procs = [p \in Procs |-> IdleProc]

NextRoundTrip == Save \/ Load
SpecRoundTrip == InitRoundTrip /\ [][NextRoundTrip]_vars

\* a file that earlier invocations left: two tasks added, the second done
SavedStore ==
    LET a1 == CHOOSE a \in AddInputs : a.due = None
        a2 == CHOOSE a \in AddInputs : a.due # None
        s1 == add_todo(empty_store, a1.title, a1.priority, a1.due, a1.today).store
        s2 == add_todo(s1, a2.title, a2.priority, a2.due, a2.today).store
    IN mark_done(s2, 2).store

InitProc ==
    /\ file \in {Absent, save_store(SavedStore)} \cup {FileOf(d) : d \in UnparsableData}
    /\ store = load_store(file)
    /\ last = Outcome("init", 0, 0, TRUE, <<>>, <<>>, 0)
    /\ prev = [store |-> store, file |-> file]
    /\ returned = <<>>
    /\ procs = [p \in Procs |-> IdleProc]

\* the invocations one after the other, each step by step, I/O failing or not
NextSeq ==
    \/ PReadFails(1) \/ PAdd(1) \/ PList(1) \/ PDone(1) \/ PRemove(1)
    \/ PCreate(1) \/ PWrite(1) \/ PPrint(1) \/ PExit(1)
SpecSeq == InitProc /\ [][NextSeq]_vars

\* two invocations, one command each, their steps in any order
NextConc ==
    \E p \in Procs :
        \/ PReadFails(p) \/ PAdd(p) \/ PList(p) \/ PDone(p) \/ PRemove(p)
        \/ PCreate(p) \/ PWrite(p) \/ PPrint(p)
SpecConc == InitProc /\ [][NextConc]_vars

\* one command per invocation, one invocation after the other
\* stores whose next_id is at and next to the largest u32, as loaded from a
\* file that holds them
EdgeNextIds == {1, U32_MAX - 1, U32_MAX}

InitEdge ==
    /\ \E n \in EdgeNextIds : file = save_store([next_id |-> n, todos |-> <<>>])
    /\ store = load_store(file)
    /\ last = Outcome("init", 0, 0, TRUE, <<>>, <<>>, 0)
    /\ prev = [store |-> store, file |-> file]
    /\ returned = <<>>
    /\ procs = [p \in Procs |-> IdleProc]

SpecEdge == InitEdge /\ [][NextMem]_vars

NextCli == CmdAdd \/ CmdList \/ CmdDone \/ CmdRemove
SpecCli == Init /\ [][NextCli]_vars

\* ---------------------------------------------------------------- properties
HasId(s, id) == \E i \in 1 .. Len(s.todos) : s.todos[i].id = id

Unparsable(f) == f.exists /\ ~from_str(f.data).ok

\* C1: on a fresh store the k-th call of add returns id k, so the returned
\* ids are 1, 2, 3, ... in this order, and after every call next_id is
\* greater than every id returned so far.
C1_AddReturnsCallNumber ==
    /\ \A k \in 1 .. Len(returned) : returned[k] = k
    /\ \A k \in 1 .. Len(returned) : store.next_id > returned[k]

C1_Witness == last.op = "add" /\ Len(returned) >= 3

\* C2: after a load and any calls of add, complete, remove, save and load,
\* no two tasks of the store have the same id and next_id is greater than
\* the id of every task.
C2_UniqueIdsBelowNextId ==
    /\ \A i, j \in 1 .. Len(store.todos) :
          i # j => store.todos[i].id # store.todos[j].id
    /\ \A i \in 1 .. Len(store.todos) : store.next_id > store.todos[i].id

C2_Witness ==
    /\ last.op = "add"
    /\ Len(store.todos) >= 2
    /\ file.exists /\ ~Unparsable(file)
    /\ Len(load_store(file).todos) >= Len(store.todos)

\* C3: over the commands run one after the other, the next_id kept in the
\* file never decreases and no id is returned by add twice, also when the
\* task that had it was removed in between.
C3_MonotonicNeverReused ==
    /\ load_store(file).next_id >= load_store(prev.file).next_id
    /\ store.next_id >= prev.store.next_id
    /\ \A i, j \in 1 .. Len(returned) : i # j => returned[i] # returned[j]

C3_Witness ==
    /\ last.op = "cmd_add"
    /\ Len(returned) >= 2
    /\ \E i \in 1 .. Len(returned) : ~HasId(store, returned[i])

\* C4: every task of the store has an id that is at least 1.
C4_IdsPositive == \A i \in 1 .. Len(store.todos) : store.todos[i].id >= 1

\* C5: saving a store and loading the file gives back the same store: the
\* same next_id and the same tasks, field by field, in the same order.
C5_RoundTrip ==
    /\ load_store(save_store(store)) = store
    /\ last.op = "save" => load_store(file) = store

C5_Witness ==
    /\ last.op = "load"
    /\ file = save_store(store)
    /\ Len(store.todos) >= 2
    /\ \E i \in 1 .. Len(store.todos) : store.todos[i].completed
    /\ \E i \in 1 .. Len(store.todos) : ~store.todos[i].completed
    /\ \E i \in 1 .. Len(store.todos) : store.todos[i].due_date = None
    /\ \E i \in 1 .. Len(store.todos) : store.todos[i].due_date # None
    /\ \E i \in 1 .. Len(store.todos) : store.todos[i].priority = "Low"

\* C6: loading a file that exists and cannot be parsed gives the store that
\* loading a missing file gives: no tasks and next_id = 1.
C6_UnparsableLoadsFresh ==
    (last.op = "load" /\ Unparsable(file)) =>
        /\ store = load_store(Absent)
        /\ store.next_id = 1
        /\ store.todos = <<>>

\* C7: complete and remove called with an id that no task has return false
\* and leave the store as it was.
C7_MissingIdNoEffect ==
    [][(last'.op \in {"mark_done", "remove"} /\ ~HasId(store, last'.arg)) =>
          /\ last'.ok = FALSE
          /\ store' = store]_vars

C7_Witness ==
    /\ last.op = "remove"
    /\ ~last.ok
    /\ Len(store.todos) >= 2

\* C8: Done and Remove given an id that the loaded store does not have
\* leave the file as it was, print the not-found line on the error stream,
\* print nothing on the output stream and exit with status 1; a command
\* that fails does not write the file.
C8_NotFoundDoesNotPersist ==
    /\ (last.op \in {"cmd_done", "cmd_remove"}
          /\ ~HasId(load_store(prev.file), last.arg)) =>
            /\ file = prev.file
            /\ last.stderr = <<<<"Todo #", last.arg, " not found.">>>>
            /\ last.stdout = <<>>
            /\ last.exit = 1
    /\ last.exit # 0 => file = prev.file

C8_Witness ==
    /\ last.op = "cmd_remove"
    /\ last.exit = 1
    /\ ~Unparsable(file)
    /\ Len(load_store(file).todos) >= 1

\* C9: remove called with the id of a task returns true, drops that task
\* and no other, keeps the others as they were and in their order, and
\* leaves next_id alone.
C9_RemoveDropsOnlyTarget ==
    [][(last'.op = "remove" /\ HasId(store, last'.arg)) =>
          /\ last'.ok = TRUE
          /\ Len(store'.todos) = Len(store.todos) - 1
          /\ \E k \in 1 .. Len(store.todos) :
                /\ store.todos[k].id = last'.arg
                /\ store'.todos = SubSeq(store.todos, 1, k - 1)
                                  \o SubSeq(store.todos, k + 1, Len(store.todos))
          /\ ~HasId(store', last'.arg)
          /\ store'.next_id = store.next_id]_vars

\* the first of three tasks was removed
C9_Witness ==
    /\ last.op = "remove"
    /\ last.ok
    /\ Len(store.todos) = 2
    /\ last.arg < store.todos[1].id

\* C10: complete called with the id of a task returns true and leaves the
\* task completed; called again right after with the same id it returns
\* true again and leaves the store as the first call left it.
C10_CompleteIdempotent ==
    [][/\ (last'.op = "mark_done" /\ HasId(store, last'.arg)) =>
            /\ last'.ok = TRUE
            /\ \A i \in 1 .. Len(store'.todos) :
                  store'.todos[i].id = last'.arg => store'.todos[i].completed
       /\ (last'.op = "mark_done" /\ last.op = "mark_done"
             /\ last.ok /\ last'.arg = last.arg) =>
            /\ last'.ok = TRUE
            /\ store' = store]_vars

C10_Witness ==
    /\ last.op = "mark_done"
    /\ last.again
    /\ last.ok
    /\ Len(store.todos) >= 2

\* the tasks of todos whose completed flag is in flags, in the order of todos
MatchingIndexes(todos, flags) ==
    {i \in 1 .. Len(todos) : todos[i].completed \in flags}

IsSelection(found, todos, flags) ==
    LET idx == MatchingIndexes(todos, flags)
    IN /\ Len(found) = Cardinality(idx)
       /\ \A i \in idx : found[Cardinality({j \in idx : j <= i})] = todos[i]

FilterFlags(filter) ==
    CASE filter = "All" -> {TRUE, FALSE}
      [] filter = "Done" -> {TRUE}
      [] filter = "Pending" -> {FALSE}

SeqRange(q) == {q[i] : i \in 1 .. Len(q)}

\* C11: filter returns exactly the tasks that match (All: every task, Done:
\* the completed ones, Pending: the others) in store order and leaves the
\* store as it was; for every store the Done and the Pending results have
\* no task in common and together hold exactly the tasks of the All result.
C11_FilterSelectsInOrder ==
    [][/\ last'.op = "filter" =>
            /\ store' = store
            /\ IsSelection(last'.found, store.todos, FilterFlags(last'.filter))
       /\ LET all == filter_todos(store', "All")
              done == filter_todos(store', "Done")
              pending == filter_todos(store', "Pending")
          IN /\ all = store'.todos
             /\ SeqRange(done) \cap SeqRange(pending) = {}
             /\ SeqRange(done) \cup SeqRange(pending) = SeqRange(all)
             /\ Len(done) + Len(pending) = Len(all)]_vars

C11_Witness ==
    /\ last.op = "filter"
    /\ last.filter = "Pending"
    /\ Len(store.todos) = 3
    /\ Len(last.found) = 2
    /\ store.todos[2].completed

\* C12: add appends one task at the end, with the id that next_id had, not
\* completed, with the title, priority and due date given, and leaves the
\* tasks already there as they were and in their order; the Pending filter
\* of the store right after has the new task as its last element.
C12_AddAppendsOneTask ==
    [][last'.op = "add" =>
          /\ Len(store'.todos) = Len(store.todos) + 1
          /\ SubSeq(store'.todos, 1, Len(store.todos)) = store.todos
          /\ LET t == store'.todos[Len(store'.todos)]
                 pending == filter_todos(store', "Pending")
             IN /\ t.id = store.next_id
                /\ last'.ret = store.next_id
                /\ t.completed = FALSE
                /\ t.title = last'.given.title
                /\ t.priority = last'.given.priority
                /\ t.due_date = last'.given.due
                /\ pending # <<>>
                /\ pending[Len(pending)] = t]_vars

C12_Witness ==
    /\ last.op = "add"
    /\ Len(store.todos) = 3
    /\ store.todos[1].completed
    /\ last.given.due # None

\* C13: load on a path where there is no file returns the store with
\* next_id = 1 and no tasks, and there is still no file afterwards.
C13_LoadMissingIsFresh ==
    [][(last'.op = "load" /\ ~file.exists) =>
          /\ store'.next_id = 1
          /\ store'.todos = <<>>
          /\ file' = file
          /\ ~file'.exists]_vars

C13_Witness ==
    /\ last.op = "load"
    /\ ~file.exists
    /\ store.next_id = 1
    /\ store.todos = <<>>

Mutating == {"add", "done", "remove"}

\* C14: in Add, Done and Remove the confirmation is printed only after the
\* store is in the file; the load of the next invocation returns the store
\* the command left; an invocation whose write fails ends with a non-zero
\* status and has printed no confirmation.
C14_SavedBeforeConfirmed ==
    [][\A p \in Procs :
         /\ (procs[p].stdout = <<>> /\ procs'[p].stdout # <<>>
               /\ procs'[p].cmd \in Mutating) =>
              /\ procs[p].pc = "saved"
              /\ file = save_store(procs'[p].store)
              /\ load_store(file) = procs'[p].store
         /\ (procs[p].pc = "idle" /\ procs'[p].pc # "idle"
               /\ procs[p].cmd \in Mutating /\ procs[p].stdout # <<>>
               /\ procs'[p].failed # "read") =>
              procs'[p].loaded = procs[p].store
         /\ procs'[p].failed \in {"create", "write"} =>
              /\ procs'[p].pc \in {"done", "idle"}
              /\ procs'[p].exit # 0
              /\ procs'[p].stdout = <<>>]_vars

\* a Done that succeeded on a task an earlier invocation added
C14_Witness ==
    /\ store.todos = <<>>
    /\ procs[1].pc = "done"
    /\ procs[1].cmd = "done"
    /\ procs[1].stdout # <<>>
    /\ file = save_store(procs[1].store)
    /\ Len(procs[1].store.todos) >= 2

\* C15: from one command to the next a task keeps its id, title, priority,
\* due date and creation date, and its completed flag changes only from
\* false to true: a task that is completed stays so, through save and load,
\* for as long as it is in the store.
C15_TaskLifecycle ==
    /\ load_store(file) = store
    /\ \A i \in 1 .. Len(prev.store.todos), j \in 1 .. Len(store.todos) :
          prev.store.todos[i].id = store.todos[j].id =>
              /\ store.todos[j].title = prev.store.todos[i].title
              /\ store.todos[j].priority = prev.store.todos[i].priority
              /\ store.todos[j].due_date = prev.store.todos[i].due_date
              /\ store.todos[j].created_at = prev.store.todos[i].created_at
              /\ prev.store.todos[i].completed => store.todos[j].completed

\* a completed task is still there, completed, after a later Add
C15_Witness ==
    /\ last.op = "cmd_add"
    /\ \E i \in 1 .. Len(prev.store.todos) : prev.store.todos[i].completed
    /\ \E j \in 1 .. Len(store.todos) : store.todos[j].completed

\* p and q both ran a command that changes the store, both loaded before
\* either began to save, both saved and both are done
BothSaved(p, q) ==
    /\ p # q
    /\ \A r \in {p, q} :
          /\ procs[r].pc = "done"
          /\ procs[r].cmd \in Mutating
          /\ procs[r].early
          /\ procs[r].saving
          /\ procs[r].failed = ""

\* the file is the store of q and nothing of what p did is in it; both
\* printed their confirmation; two Adds reported the same id and the file
\* has only one task more than was loaded
LastWriterWon(p, q) ==
    /\ file = save_store(procs[q].store)
    /\ procs[p].loaded = procs[q].loaded
    /\ procs[p].stdout = confirmation(procs[p])
    /\ procs[q].stdout = confirmation(procs[q])
    /\ procs[p].exit = 0 /\ procs[q].exit = 0
    /\ (procs[p].cmd = "add" /\ procs[q].cmd = "add") =>
          /\ procs[p].ret = procs[q].ret
          /\ Len(load_store(file).todos) = Len(procs[q].loaded.todos) + 1

\* C16 as claimed: when two commands that change the store both load before
\* either saves, the file after both saves is the store of the one that
\* saved last, the change of the other is lost, and both printed a
\* confirmation.
C16_LastWriterWins ==
    \A p, q \in Procs :
        (BothSaved(p, q) /\ procs[q].last_write) => LastWriterWon(p, q)

\* C16 as amended: the same, when in addition the two saves did not run at
\* the same time, that is when the write of the first was over before the
\* other emptied the file.
C16_LastWriterWinsNoOverlap ==
    \A p, q \in Procs :
        (BothSaved(p, q) /\ procs[q].last_write
           /\ ~procs[p].overlapped /\ ~procs[q].overlapped) => LastWriterWon(p, q)

\* two Adds of different tasks, one save after the other
C16_Witness ==
    /\ BothSaved(1, 2)
    /\ procs[2].last_write
    /\ ~procs[1].overlapped /\ ~procs[2].overlapped
    /\ procs[1].cmd = "add" /\ procs[2].cmd = "add"
    /\ procs[1].given # procs[2].given
    /\ procs[1].ret = procs[2].ret
    /\ file = save_store(procs[2].store)

\* C17: List does not write the file, whatever the filter and whether the
\* file is missing, holds a store or does not parse; it prints the
\* no-todos line exactly when no task matches, and otherwise the two header
\* lines and one row for each matching task, in store order.
C17_ListReadOnly ==
    last.op = "cmd_list" =>
        LET loaded == load_store(prev.file)
            idx == MatchingIndexes(loaded.todos, FilterFlags(last.filter))
        IN /\ file = prev.file
           /\ last.exit = 0
           /\ last.stderr = <<>>
           /\ (last.stdout = <<<<"No todos found.">>>>) <=> (idx = {})
           /\ idx # {} =>
                /\ Len(last.stdout) = 2 + Cardinality(idx)
                /\ \A i \in idx :
                      LET row == last.stdout[2 + Cardinality({j \in idx : j <= i})]
                      IN /\ row[1] = loaded.todos[i].id
                         /\ row[2] = (IF loaded.todos[i].completed THEN "[x]" ELSE "[ ]")
                         /\ row[5] = loaded.todos[i].title

\* Pending listed from a file with two tasks of which one is done
C17_Witness ==
    /\ last.op = "cmd_list"
    /\ last.filter = "Pending"
    /\ Len(load_store(file).todos) = 2
    /\ Len(last.stdout) = 3

\* C18: add never fails: for every store, also one whose next_id is the
\* largest u32, and every title, also the empty one, add returns an id,
\* appends the task with that id and leaves next_id greater than the id.
C18_AddNeverFails ==
    [][last'.op = "add" =>
          /\ last'.ok
          /\ last'.ret = store.next_id
          /\ Len(store'.todos) = Len(store.todos) + 1
          /\ store'.todos[Len(store'.todos)].id = last'.ret
          /\ store'.todos[Len(store'.todos)].title = last'.given.title
          /\ u32_lt(last'.ret, store'.next_id)]_vars

====
